---- MODULE Spec2Model ----
(***************************************************************************)
(* A model of the Wordle clone in src/main.py: the guess colouring         *)
(* (color_guess, letter_freq), the letter legend LETTER_STATUS, the input  *)
(* validation (read_input) and the round loop (game) with the process      *)
(* start-up and exit around it.                                            *)
(*                                                                         *)
(* Strings are sequences of one-character strings.  A rich.Text is a       *)
(* record [plain, spans]; a rich Span is a record [start, end, style] with *)
(* Python's 0-based, end-exclusive offsets.                                *)
(***************************************************************************)
EXTENDS Integers, Sequences, FiniteSets, TLC

VARIABLES pc, argv, WORDLIST, wordle, board, tries, guess, LETTER_STATUS,
          player_is_win, exit_status, exception

vars == <<pc, argv, WORDLIST, wordle, board, tries, guess, LETTER_STATUS,
          player_is_win, exit_status, exception>>

----------------------------------------------------------------------------
(* Game settings *)

TRIES_LIMIT == 6

WORD_LENGTH == 5

----------------------------------------------------------------------------
(* Characters and strings *)

UPPER == <<"A", "B", "C", "D", "E", "F", "G", "H", "I", "J", "K", "L", "M",
           "N", "O", "P", "Q", "R", "S", "T", "U", "V", "W", "X", "Y", "Z">>

LOWER == <<"a", "b", "c", "d", "e", "f", "g", "h", "i", "j", "k", "l", "m",
           "n", "o", "p", "q", "r", "s", "t", "u", "v", "w", "x", "y", "z">>

Range(s) == {s[i] : i \in 1..Len(s)}

\* str.upper() on one character: a lowercase letter becomes its capital,
\* every other character (capitals, the newline) is kept.
upper_char(c) ==
    IF \E k \in 1..Len(LOWER) : LOWER[k] = c
    THEN UPPER[CHOOSE k \in 1..Len(LOWER) : LOWER[k] = c]
    ELSE c

\* str.upper()
upper(s) == [i \in 1..Len(s) |-> upper_char(s[i])]

\* Python's s[a:b] for 0 <= a <= b: the end is clamped to the length.
slice(s, a, b) ==
    LET e == IF b < Len(s) THEN b ELSE Len(s)
    IN  IF a >= e THEN <<>> ELSE SubSeq(s, a + 1, e)

----------------------------------------------------------------------------
(* rich.Text, rich.Span and the three letter styles *)

green_style == "green"

yellow_style == "yellow"

no_style == "gray"

Span(start, end, style) == [start |-> start, end |-> end, style |-> style]

Text(s) == [plain |-> s, spans |-> <<>>]

\* stylize putting the span at the front of the list, as stylize_before does.
stylize_at_front(text, style, start, end) ==
    LET length == Len(text.plain)
        e == IF end < length THEN end ELSE length
    IN  IF start >= length \/ end <= start
        THEN text
        ELSE [text EXCEPT !.spans = <<Span(start, e, style)>> \o @]

\* Text.stylize(style, start, end): the span goes to the END of the span
\* list, so it is applied after (over) the styles already present.
stylize(text, style, start, end) ==
    LET length == Len(text.plain)
        e == IF end < length THEN end ELSE length
    IN  IF start >= length \/ end <= start
        THEN text
        ELSE [text EXCEPT !.spans = Append(@, Span(start, e, style))]

\* stylize_before putting the span at the end of the list, as stylize does.
stylize_before_at_end(text, style, start, end) ==
    LET length == Len(text.plain)
        e == IF end < length THEN end ELSE length
    IN  IF start >= length \/ end <= start
        THEN text
        ELSE [text EXCEPT !.spans = Append(@, Span(start, e, style))]

\* Text.stylize_before(style, start, end): the span goes to the FRONT of
\* the span list, so every style already present is applied over it.
stylize_before(text, style, start, end) ==
    LET length == Len(text.plain)
        e == IF end < length THEN end ELSE length
    IN  IF start >= length \/ end <= start
        THEN text
        ELSE [text EXCEPT !.spans = <<Span(start, e, style)>> \o @]

\* What console.print shows at 0-based offset p of a Text: the styles of the
\* spans covering p are combined in list order and each of the three styles
\* sets both colours, so the last covering span decides; "none" if no span.
style_at(text, p) ==
    LET covering == {k \in 1..Len(text.spans) :
                        text.spans[k].start <= p /\ p < text.spans[k].end}
    IN  IF covering = {} THEN "none"
        ELSE text.spans[CHOOSE k \in covering : \A j \in covering : j <= k].style

\* LETTER_STATUS as built at import: one unstyled Text " X " per capital.
LETTER_STATUS_init == [letter \in Range(UPPER) |-> Text(<<" ", letter, " ">>)]

----------------------------------------------------------------------------
(* letter_freq and color_guess *)

RECURSIVE letter_freq_loop(_, _, _)
letter_freq_loop(str, i, freqs) ==
    IF i > Len(str) THEN freqs
    ELSE letter_freq_loop(str, i + 1,
            IF str[i] \in DOMAIN freqs
            THEN [freqs EXCEPT ![str[i]] = @ + 1]
            ELSE freqs @@ (str[i] :> 1))

\* letter_freq(str): the dict of letter -> number of occurrences
letter_freq(str) == letter_freq_loop(str, 1, [x \in {} |-> 0])

\* pass1_step with the decrement of wordle_freq left out: an exact match
\* leaves the budget the second loop spends.
pass1_step_no_decrement(st, g, w, i) ==
    LET letter == g[i + 1]
    IN  IF i >= Len(w)
        THEN [st EXCEPT !.error = "IndexError"]
        ELSE IF letter = w[i + 1] /\ st.wordle_freq[letter] > 0
        THEN [st EXCEPT
                !.pretty_guess = stylize(@, green_style, i, i + 1),
                !.LETTER_STATUS[letter] = stylize(@, green_style, 0, Len(@.plain))]
        ELSE st

\* pass1_step asking for more than one unit of remaining frequency before
\* it marks an exact match.
pass1_step_strict_budget(st, g, w, i) ==
    LET letter == g[i + 1]
    IN  IF i >= Len(w)
        THEN [st EXCEPT !.error = "IndexError"]
        ELSE IF letter = w[i + 1] /\ st.wordle_freq[letter] > 1
        THEN [st EXCEPT
                !.pretty_guess = stylize(@, green_style, i, i + 1),
                !.LETTER_STATUS[letter] = stylize(@, green_style, 0, Len(@.plain)),
                !.wordle_freq[letter] = @ - 1]
        ELSE st

\* The body of the first loop of color_guess for 0-based index i.  st holds
\* the locals pretty_guess and wordle_freq, the global LETTER_STATUS and the
\* exception raised so far.  wordle[i] past the end of wordle is an
\* IndexError.
pass1_step(st, g, w, i) ==
    LET letter == g[i + 1]
    IN  IF i >= Len(w)
        THEN [st EXCEPT !.error = "IndexError"]
        ELSE IF letter = w[i + 1] /\ st.wordle_freq[letter] > 0
        THEN [st EXCEPT
                !.pretty_guess = stylize(@, green_style, i, i + 1),
                !.LETTER_STATUS[letter] = stylize(@, green_style, 0, Len(@.plain)),
                !.wordle_freq[letter] = @ - 1]
        ELSE st

RECURSIVE pass1(_, _, _, _)
pass1(st, g, w, i) ==
    IF st.error # "none" \/ i >= WORD_LENGTH THEN st
    ELSE pass1(pass1_step(st, g, w, i), g, w, i + 1)

\* pass2_step with the test of the remaining frequency left out.
pass2_step_no_budget(st, g, w, i) ==
    LET letter == g[i + 1]
    IN  IF Span(i, i + 1, green_style) \in Range(st.pretty_guess.spans)
        THEN st
        ELSE IF letter \in Range(w)
        THEN [st EXCEPT
                !.pretty_guess = stylize(@, yellow_style, i, i + 1),
                !.LETTER_STATUS[letter] =
                    stylize_before(@, yellow_style, 0, Len(@.plain)),
                !.wordle_freq[letter] = @ - 1]
        ELSE [st EXCEPT
                !.pretty_guess = stylize(@, no_style, i, i + 1),
                !.LETTER_STATUS[letter] =
                    stylize_before(@, no_style, 0, Len(@.plain))]

\* pass2_step without the skip of the positions the first loop made green.
pass2_step_recolors_green(st, g, w, i) ==
    LET letter == g[i + 1]
    IN  IF FALSE
        THEN st
        ELSE IF letter \in Range(w) /\ st.wordle_freq[letter] > 0
        THEN [st EXCEPT
                !.pretty_guess = stylize(@, yellow_style, i, i + 1),
                !.LETTER_STATUS[letter] =
                    stylize_before(@, yellow_style, 0, Len(@.plain)),
                !.wordle_freq[letter] = @ - 1]
        ELSE [st EXCEPT
                !.pretty_guess = stylize(@, no_style, i, i + 1),
                !.LETTER_STATUS[letter] =
                    stylize_before(@, no_style, 0, Len(@.plain))]

\* pass2_step taking "already green" from the letter's entry of LETTER_STATUS
\* instead of from the spans of pretty_guess.
pass2_step_green_from_legend(st, g, w, i) ==
    LET letter == g[i + 1]
    IN  IF Span(0, 3, green_style) \in Range(st.LETTER_STATUS[letter].spans)
        THEN st
        ELSE IF letter \in Range(w) /\ st.wordle_freq[letter] > 0
        THEN [st EXCEPT
                !.pretty_guess = stylize(@, yellow_style, i, i + 1),
                !.LETTER_STATUS[letter] =
                    stylize_before(@, yellow_style, 0, Len(@.plain)),
                !.wordle_freq[letter] = @ - 1]
        ELSE [st EXCEPT
                !.pretty_guess = stylize(@, no_style, i, i + 1),
                !.LETTER_STATUS[letter] =
                    stylize_before(@, no_style, 0, Len(@.plain))]

\* pass2_step putting the gray style of the legend over the styles already
\* present (stylize) instead of under them (stylize_before).
pass2_step_gray_appended(st, g, w, i) ==
    LET letter == g[i + 1]
    IN  IF Span(i, i + 1, green_style) \in Range(st.pretty_guess.spans)
        THEN st
        ELSE IF letter \in Range(w) /\ st.wordle_freq[letter] > 0
        THEN [st EXCEPT
                !.pretty_guess = stylize(@, yellow_style, i, i + 1),
                !.LETTER_STATUS[letter] =
                    stylize_before(@, yellow_style, 0, Len(@.plain)),
                !.wordle_freq[letter] = @ - 1]
        ELSE [st EXCEPT
                !.pretty_guess = stylize(@, no_style, i, i + 1),
                !.LETTER_STATUS[letter] =
                    stylize(@, no_style, 0, Len(@.plain))]

\* The body of the second loop of color_guess for 0-based index i.
pass2_step(st, g, w, i) ==
    LET letter == g[i + 1]
    IN  IF Span(i, i + 1, green_style) \in Range(st.pretty_guess.spans)
        THEN st
        ELSE IF letter \in Range(w) /\ st.wordle_freq[letter] > 0
        THEN [st EXCEPT
                !.pretty_guess = stylize(@, yellow_style, i, i + 1),
                !.LETTER_STATUS[letter] =
                    stylize_before(@, yellow_style, 0, Len(@.plain)),
                !.wordle_freq[letter] = @ - 1]
        ELSE [st EXCEPT
                !.pretty_guess = stylize(@, no_style, i, i + 1),
                !.LETTER_STATUS[letter] =
                    stylize_before(@, no_style, 0, Len(@.plain))]

\* pass2 walking the positions from the last to the first.
RECURSIVE pass2_reversed(_, _, _, _)
pass2_reversed(st, g, w, i) ==
    IF st.error # "none" \/ i >= WORD_LENGTH THEN st
    ELSE pass2_reversed(pass2_step(st, g, w, WORD_LENGTH - 1 - i), g, w, i + 1)

RECURSIVE pass2(_, _, _, _)
pass2(st, g, w, i) ==
    IF st.error # "none" \/ i >= WORD_LENGTH THEN st
    ELSE pass2(pass2_step(st, g, w, i), g, w, i + 1)

\* color_guess(guess, wordle) run with the global LETTER_STATUS equal to ls:
\* the returned Text (pretty_guess), the LETTER_STATUS it leaves behind and
\* the exception that ended it, if any.
color_guess(g, w, ls) ==
    LET st0 == [pretty_guess |-> Text(g), wordle_freq |-> letter_freq(w),
                LETTER_STATUS |-> ls, error |-> "none"]
    IN  pass2(pass1(st0, g, w, 0), g, w, 0)

----------------------------------------------------------------------------
(* The environment: the wordlist file, the command line, the typed lines *)

\* The file WORDLIST_NAME as the process may find it: absent, empty, or a
\* list of one word per line (any case, newline-terminated but for the last).
NoFile == [exists |-> FALSE, lines |-> <<>>]

EmptyFile == [exists |-> TRUE, lines |-> <<>>]

WordsFile ==
    [exists |-> TRUE,
     lines |-> << <<"S", "T", "E", "P", "S", "\n">>,
                  <<"h", "e", "e", "l", "s", "\n">>,
                  <<"e", "l", "b", "o", "w", "\n">>,
                  <<"s", "l", "e", "e", "p">> >>]

Files == {NoFile, EmptyFile, WordsFile}

\* argv[1] values tried: empty, too short, too long, five letters outside
\* the wordlist, and a word of the wordlist in mixed case.
Overrides ==
    { <<>>,
      <<"s", "t">>,
      <<"e", "l", "b", "o", "w", "s">>,
      <<"c", "r", "a", "n", "e">>,
      <<"S", "t", "e", "p", "s">> }

Argvs == { << <<"main.py">> >> } \cup { << <<"main.py">>, w >> : w \in Overrides }

\* Lines the player may type at the prompt: the words of the list (one of
\* them in lowercase as well), a word of four letters, one of six, five
\* letters outside the list, and the empty line.
Inputs ==
    { <<"S", "T", "E", "P", "S">>,
      <<"h", "e", "e", "l", "s">>,
      <<"H", "E", "E", "L", "S">>,
      <<"E", "L", "B", "O", "W">>,
      <<"S", "L", "E", "E", "P">>,
      <<"S", "T", "E", "P">>,
      <<"e", "l", "b", "o", "w", "s">>,
      <<"c", "r", "a", "n", "e">>,
      <<>> }

----------------------------------------------------------------------------
(* The process *)

\* board = [Text("_____")] * TRIES_LIMIT
empty_board == [k \in 1..TRIES_LIMIT |-> Text(<<"_", "_", "_", "_", "_">>)]

Init ==
    /\ pc = "load_wordlist"
    /\ argv \in Argvs
    /\ WORDLIST = <<>>
    /\ wordle = <<>>
    /\ board = <<>>
    /\ tries = 0
    /\ guess = <<>>
    /\ LETTER_STATUS = LETTER_STATUS_init
    /\ player_is_win = "unset"
    /\ exit_status = -1
    /\ exception = "none"

\* load_wordlist(): the first WORD_LENGTH characters of every line, in
\* capitals; exit(1) if the file is missing or holds no line.
load_wordlist ==
    /\ pc = "load_wordlist"
    /\ \E f \in Files :
        LET words == [k \in 1..Len(f.lines) |->
                        upper(slice(f.lines[k], 0, WORD_LENGTH))]
        IN  IF ~f.exists \/ Len(words) = 0
            THEN /\ pc' = "exited"
                 /\ exit_status' = 1
                 /\ WORDLIST' = WORDLIST
            ELSE /\ pc' = "secret_word"
                 /\ exit_status' = exit_status
                 /\ WORDLIST' = words
    /\ UNCHANGED <<argv, wordle, board, tries, guess, LETTER_STATUS,
                   player_is_win, exception>>

\* secret_word(): argv[1] in capitals when given, whatever it is; otherwise
\* any word of WORDLIST (random_choice).
secret_word ==
    /\ pc = "secret_word"
    /\ IF Len(argv) > 1
       THEN wordle' = upper(argv[2])
       ELSE \E k \in 1..Len(WORDLIST) : wordle' = upper(WORDLIST[k])
    /\ pc' = "game"
    /\ UNCHANGED <<argv, WORDLIST, board, tries, guess, LETTER_STATUS,
                   player_is_win, exit_status, exception>>

\* game(wordle), up to its loop: the empty board and tries = 0.
game_start ==
    /\ pc = "game"
    /\ board' = empty_board
    /\ tries' = 0
    /\ pc' = "read_input"
    /\ UNCHANGED <<argv, WORDLIST, wordle, guess, LETTER_STATUS,
                   player_is_win, exit_status, exception>>

\* is_valid without the test of membership in the wordlist.
is_valid_length_only(g, wordlist) == Len(g) = WORD_LENGTH

\* The test of read_input on the line typed, already in capitals.
is_valid(g, wordlist) == Len(g) = WORD_LENGTH /\ g \in Range(wordlist)

\* read_input: a line that fails the test is reported and the prompt is
\* repeated; only the local guess has changed.
read_input_reject ==
    /\ pc = "read_input"
    /\ \E line \in Inputs :
        /\ ~is_valid(upper(line), WORDLIST)
        /\ guess' = upper(line)
    /\ UNCHANGED <<pc, argv, WORDLIST, wordle, board, tries, LETTER_STATUS,
                   player_is_win, exit_status, exception>>

\* game_round with the loop test taken before the win test.
game_round_limit_first(g, w, t) ==
    IF t + 1 >= TRIES_LIMIT THEN "False"
    ELSE IF g = w THEN "True"
    ELSE "unset"

\* game_round with the loop ending one round early.
game_round_one_short(g, w, t) ==
    IF g = w THEN "True"
    ELSE IF t + 1 < TRIES_LIMIT - 1 THEN "unset"
    ELSE "False"

\* What one pass of the loop of game() decides after add_to_board, with
\* tries the value before the increment: "True" (return True), "False" (the
\* loop ends, return False) or "unset" (next round).
game_round(g, w, t) ==
    IF g = w THEN "True"
    ELSE IF t + 1 < TRIES_LIMIT THEN "unset"
    ELSE "False"

\* game_round_step without tries += 1: every guess goes to the same slot.
game_round_step_no_increment ==
    /\ pc = "read_input"
    /\ \E line \in Inputs :
        /\ is_valid(upper(line), WORDLIST)
        /\ guess' = upper(line)
        /\ LET r == color_guess(upper(line), wordle, LETTER_STATUS)
               result == game_round(upper(line), wordle, tries)
           IN  /\ LETTER_STATUS' = r.LETTER_STATUS
               /\ IF r.error # "none"
                  THEN /\ exception' = r.error
                       /\ pc' = "exited"
                       /\ exit_status' = 1
                       /\ UNCHANGED <<board, tries, player_is_win>>
                  ELSE /\ board' = [board EXCEPT ![tries + 1] = r.pretty_guess]
                       /\ player_is_win' = result
                       /\ tries' = tries
                       /\ pc' = IF result = "unset" THEN "read_input" ELSE "exited"
                       /\ exit_status' = IF result = "unset" THEN exit_status ELSE 0
                       /\ UNCHANGED exception
    /\ UNCHANGED <<argv, WORDLIST, wordle>>

\* One pass of the loop of game() from the line read_input accepts:
\* add_to_board colours the guess and stores it at board[tries]; then the
\* win test, the increment and the loop test.  When game() returns, the
\* process prints the result and ends with status 0.  An exception out of
\* color_guess ends the process with a traceback (status 1) before the
\* board is written; what color_guess did to LETTER_STATUS stays done.
game_round_step ==
    /\ pc = "read_input"
    /\ \E line \in Inputs :
        /\ is_valid(upper(line), WORDLIST)
        /\ guess' = upper(line)
        /\ LET r == color_guess(upper(line), wordle, LETTER_STATUS)
               result == game_round(upper(line), wordle, tries)
           IN  /\ LETTER_STATUS' = r.LETTER_STATUS
               /\ IF r.error # "none"
                  THEN /\ exception' = r.error
                       /\ pc' = "exited"
                       /\ exit_status' = 1
                       /\ UNCHANGED <<board, tries, player_is_win>>
                  ELSE /\ board' = [board EXCEPT ![tries + 1] = r.pretty_guess]
                       /\ player_is_win' = result
                       /\ tries' = IF result = "True" THEN tries ELSE tries + 1
                       /\ pc' = IF result = "unset" THEN "read_input" ELSE "exited"
                       /\ exit_status' = IF result = "unset" THEN exit_status ELSE 0
                       /\ UNCHANGED exception
    /\ UNCHANGED <<argv, WORDLIST, wordle>>

\* keyboard_interrupt ending the process with status 0 (exit() with no
\* argument).
keyboard_interrupt_exit_zero ==
    /\ pc = "read_input"
    /\ exception' = "KeyboardInterrupt"
    /\ pc' = "exited"
    /\ exit_status' = 0
    /\ UNCHANGED <<argv, WORDLIST, wordle, board, tries, guess, LETTER_STATUS,
                   player_is_win>>

\* KeyboardInterrupt while input() waits: "Exiting game...", exit(1).
keyboard_interrupt ==
    /\ pc = "read_input"
    /\ exception' = "KeyboardInterrupt"
    /\ pc' = "exited"
    /\ exit_status' = 1
    /\ UNCHANGED <<argv, WORDLIST, wordle, board, tries, guess, LETTER_STATUS,
                   player_is_win>>

Next ==
    \/ load_wordlist
    \/ secret_word
    \/ game_start
    \/ read_input_reject
    \/ game_round_step
    \/ keyboard_interrupt

Spec == Init /\ [][Next]_vars

----------------------------------------------------------------------------
(* color_guess alone: one call of add_to_board on an empty board, for every *)
(* secret and every guess of WORD_LENGTH letters over a small alphabet,     *)
(* together with the four words of the docstring of color_guess.           *)

NumEvalLetters == 3

STEPS == <<"S", "T", "E", "P", "S">>

HEELS == <<"H", "E", "E", "L", "S">>

ELBOW == <<"E", "L", "B", "O", "W">>

SLEEP == <<"S", "L", "E", "E", "P">>

EvalWords ==
    {[i \in 1..WORD_LENGTH |-> f[i]] :
        f \in [1..WORD_LENGTH -> {UPPER[k] : k \in 1..NumEvalLetters}]}
    \cup {STEPS, HEELS, ELBOW, SLEEP}

InitEval ==
    /\ pc = "add_to_board"
    /\ argv = << <<"main.py">> >>
    /\ WORDLIST = <<>>
    /\ wordle \in EvalWords
    /\ board = empty_board
    /\ tries = 0
    /\ guess = <<>>
    /\ LETTER_STATUS = LETTER_STATUS_init
    /\ player_is_win = "unset"
    /\ exit_status = -1
    /\ exception = "none"

\* add_to_board(guess, wordle, board, tries): board[tries] = color_guess(...)
add_to_board ==
    /\ pc = "add_to_board"
    /\ \E g \in EvalWords :
        LET r == color_guess(g, wordle, LETTER_STATUS)
        IN  /\ guess' = g
            /\ board' = [board EXCEPT ![tries + 1] = r.pretty_guess]
            /\ LETTER_STATUS' = r.LETTER_STATUS
    /\ pc' = "colored"
    /\ UNCHANGED <<argv, WORDLIST, wordle, tries, player_is_win, exit_status,
                   exception>>

NextEval == add_to_board

SpecEval == InitEval /\ [][NextEval]_vars

----------------------------------------------------------------------------
(* Reading the state: classifications, counts, the legend *)

\* The classification shown at 1-based position i of a coloured guess.
Class(text, i) ==
    LET c == style_at(text, i - 1)
    IN  IF c = "green" THEN "Correct"
        ELSE IF c = "yellow" THEN "Present"
        ELSE IF c = "gray" THEN "Absent"
        ELSE "Unclassified"

Classification(text) == [i \in 1..Len(text.plain) |-> Class(text, i)]

\* count(X, s)
Count(X, s) == Cardinality({i \in 1..Len(s) : s[i] = X})

\* The number of occurrences of X in a coloured guess shown green or yellow.
Colored(text, X) ==
    Cardinality({i \in 1..Len(text.plain) :
                    text.plain[i] = X /\ Class(text, i) \in {"Correct", "Present"}})

Min(a, b) == IF a < b THEN a ELSE b

\* The board slots that hold a guess.
Filled == {k \in DOMAIN board : board[k] # empty_board[k]}

----------------------------------------------------------------------------
(* Claims about color_guess, checked under SpecEval *)

\* C1: for every guess and secret of WORD_LENGTH letters and every letter X,
\* the number of occurrences of X in the guess that color_guess shows green
\* or yellow never exceeds the number of occurrences of X in the secret.
C1_ColoredWithinSecretCount ==
    \A k \in Filled :
        (Len(wordle) = WORD_LENGTH /\ Len(board[k].plain) = WORD_LENGTH) =>
            \A X \in Range(board[k].plain) :
                Colored(board[k], X) <= Count(X, wordle)

\* C1 witness: a guess with more occurrences of a letter than the secret
\* has, coloured exactly as often as the secret holds the letter.
C1_Witness ==
    /\ pc = "colored"
    /\ \E X \in Range(guess) :
        /\ Count(X, wordle) >= 1
        /\ Count(X, guess) > Count(X, wordle)
        /\ Colored(board[1], X) = Count(X, wordle)

\* C2: if a letter X occurs exactly once in the secret and exactly twice in
\* the guess, and one of the two occurrences is at the index X has in the
\* secret, that occurrence is Correct and the other one Absent, on whichever
\* side the exact occurrence lies; secret STEPS, guess HEELS gives
\* Absent, Absent, Correct, Absent, Correct.
C2_PassPriority ==
    \A k \in Filled :
        LET g == board[k].plain
        IN  (Len(wordle) = WORD_LENGTH /\ Len(g) = WORD_LENGTH) =>
            /\ \A i, j \in 1..WORD_LENGTH :
                (/\ i # j
                 /\ g[i] = g[j]
                 /\ Count(g[i], g) = 2
                 /\ Count(g[i], wordle) = 1
                 /\ wordle[i] = g[i])
                => (Class(board[k], i) = "Correct" /\ Class(board[k], j) = "Absent")
            /\ (wordle = STEPS /\ g = HEELS) =>
                Classification(board[k]) =
                    <<"Absent", "Absent", "Correct", "Absent", "Correct">>

\* C2 witness: the exact occurrence lies to the right of the other one
\* (secret STEPS, guess HEELS, coloured as the docstring says).
C2_Witness ==
    /\ pc = "colored"
    /\ wordle = STEPS
    /\ guess = HEELS
    /\ Class(board[1], 2) = "Absent"
    /\ Class(board[1], 3) = "Correct"

\* C8: for every guess and secret of WORD_LENGTH letters and every letter X,
\* exactly min(count(X, guess), count(X, secret)) occurrences of X in the
\* guess are Correct or Present, and every other occurrence is Absent.
C8_ColoredIsMinOfCounts ==
    \A k \in Filled :
        LET g == board[k].plain
        IN  (Len(wordle) = WORD_LENGTH /\ Len(g) = WORD_LENGTH) =>
            /\ \A X \in Range(g) :
                Colored(board[k], X) = Min(Count(X, g), Count(X, wordle))
            /\ \A i \in 1..WORD_LENGTH :
                Class(board[k], i) \in {"Correct", "Present", "Absent"}

\* C8 witness: one letter the guess holds less often than the secret (all
\* its occurrences coloured) and one it holds more often (the surplus
\* Absent).
C8_Witness ==
    /\ pc = "colored"
    /\ \E X, Y \in Range(guess) :
        /\ Count(X, guess) < Count(X, wordle)
        /\ Colored(board[1], X) = Count(X, guess)
        /\ Count(Y, wordle) >= 1
        /\ Count(Y, guess) > Count(Y, wordle)
        /\ \E i \in 1..WORD_LENGTH : guess[i] = Y /\ Class(board[1], i) = "Absent"

----------------------------------------------------------------------------
(* Claims about the round, checked under Spec *)

\* The guesses recorded so far equal to the secret.
Matching == {k \in Filled : board[k].plain = wordle}

\* C3: game() returns True if and only if a submitted, validated guess
\* equals the secret exactly (both in capitals); the winning guess is the
\* latest one, a match on attempt TRIES_LIMIT wins, and no guess that
\* differs from the secret wins.
C3_WonIffGuessEqualsSecret ==
    /\ (player_is_win = "True") <=> (Matching # {})
    /\ (player_is_win = "True") =>
        /\ guess = wordle
        /\ Matching = {tries + 1}
        /\ Filled = 1..(tries + 1)

\* C3 witness: the round is won with the guess of attempt TRIES_LIMIT.
C3_Witness ==
    /\ player_is_win = "True"
    /\ tries = TRIES_LIMIT - 1
    /\ board[TRIES_LIMIT].plain = wordle
    /\ \A k \in 1..(TRIES_LIMIT - 1) : k \in Filled /\ board[k].plain # wordle

\* C4: game() returns False exactly when TRIES_LIMIT validated guesses have
\* been recorded and none equals the secret: never with fewer guesses, and
\* always once the TRIES_LIMIT-th non-matching guess is recorded.
C4_LostIffLimitReachedWithoutMatch ==
    (player_is_win = "False") <=>
        (Cardinality(Filled) = TRIES_LIMIT /\ Matching = {})

\* C4 witness: the round is lost with the board full of non-matching guesses.
C4_Witness ==
    /\ player_is_win = "False"
    /\ tries = TRIES_LIMIT
    /\ Filled = 1..TRIES_LIMIT
    /\ Matching = {}
    /\ Len(wordle) = WORD_LENGTH

Rank(c) ==
    IF c = "Correct" THEN 3
    ELSE IF c = "Present" THEN 2
    ELSE IF c = "Absent" THEN 1
    ELSE 0

\* The status the legend shows for letter X: the style in effect on the
\* letter of LETTER_STATUS[X] (offset 1 of " X "), 0 when it has no style.
EffRank(X) == Rank(Class(LETTER_STATUS[X], 2))

\* The classifications of X in the guess of slot k, as ranks.
RanksIn(k, X) ==
    {Rank(Class(board[k], i)) : i \in {j \in 1..Len(board[k].plain) : board[k].plain[j] = X}}

\* The best classification X has had in any recorded guess, 0 if none.
BestRank(X) ==
    LET rs == UNION {RanksIn(k, X) : k \in Filled}
    IN  IF rs = {} THEN 0 ELSE CHOOSE r \in rs : \A q \in rs : q <= r

\* C5: after any sequence of evaluated guesses (no evaluation cut short by
\* an exception), the status in effect for every letter X in LETTER_STATUS
\* is the best classification X has had in any guess so far, in the order
\* Correct > Present > Absent > Unseen.
C5_LegendShowsBestClassification ==
    (exception # "IndexError") =>
        \A X \in Range(UPPER) : EffRank(X) = BestRank(X)

\* C5 witness: a letter Present in one guess, Correct in a later one and
\* below Correct again in a still later one shows Correct.
C5_Witness ==
    \E X \in Range(UPPER) : \E j, k, m \in Filled :
        /\ j < k /\ k < m
        /\ RanksIn(j, X) = {2}
        /\ 3 \in RanksIn(k, X)
        /\ RanksIn(m, X) # {} /\ 3 \notin RanksIn(m, X)
        /\ EffRank(X) = 3

\* C6: no step lowers the status in effect of any letter in LETTER_STATUS
\* in the order Unseen < Absent < Present < Correct: whenever a step changes
\* the entry of a letter, its status afterwards is at least its status before.
C6_LegendNeverLowered ==
    [][\A X \in Range(UPPER) :
          LETTER_STATUS'[X] # LETTER_STATUS[X] => EffRank(X)' >= EffRank(X)]_vars

\* C6 witness: a letter shown Present after a first guess has an Absent
\* occurrence in the latest guess and still shows Present.
C6_Witness ==
    /\ pc = "read_input"
    /\ tries >= 2
    /\ \E X \in Range(UPPER) :
        /\ RanksIn(1, X) = {2}
        /\ 1 \in RanksIn(tries, X)
        /\ 3 \notin UNION {RanksIn(k, X) : k \in Filled}
        /\ EffRank(X) = 2

\* C7: with a secret given on the command line whose length is not
\* WORD_LENGTH or which is not in the wordlist, every validated guess is
\* evaluated and recorded without failure, the round is never won, and it
\* is lost after exactly TRIES_LIMIT guesses.
C7_OverrideUnwinnable ==
    (/\ pc \in {"read_input", "exited"}
     /\ Len(WORDLIST) > 0
     /\ Len(argv) > 1
     /\ (Len(argv[2]) # WORD_LENGTH \/ upper(argv[2]) \notin Range(WORDLIST)))
    => /\ exception # "IndexError"
       /\ player_is_win # "True"
       /\ (player_is_win = "False") <=> (Cardinality(Filled) = TRIES_LIMIT)

\* C9: the colouring of a guess depends only on the guess and the secret:
\* two slots of the board holding the same guess hold the same colouring,
\* whatever tries, the board and LETTER_STATUS were when each was coloured.
C9_SameGuessSameColouring ==
    \A j, k \in Filled :
        board[j].plain = board[k].plain => board[j].spans = board[k].spans

\* C9 witness: the same guess in the first and in the third slot, another
\* guess between them, and a letter of it whose legend entry carried
\* no green style the first time and carries one now.
C9_Witness ==
    /\ {1, 2, 3} \subseteq Filled
    /\ board[1].plain = board[3].plain
    /\ board[2].plain # board[1].plain
    /\ board[1].spans = board[3].spans
    /\ \E X \in Range(board[1].plain) :
        /\ 3 \notin RanksIn(1, X)
        /\ 3 \in RanksIn(2, X)

\* C10: a line read_input rejects (length other than WORD_LENGTH, or not in
\* WORDLIST) leaves tries, the board, LETTER_STATUS and the outcome as they
\* were, at every prompt and however many rejected lines came before.
C10_RejectedInputChangesNothing ==
    [][(/\ pc = "read_input"
        /\ exception' = "none"
        /\ (Len(guess') # WORD_LENGTH \/ guess' \notin Range(WORDLIST)))
       => UNCHANGED <<tries, board, LETTER_STATUS, player_is_win, pc,
                      exit_status, wordle>>]_vars

\* C10 witness: the prompt of the third round after a rejected line: two
\* guesses recorded, tries = 2, the line last read not a valid guess.
C10_Witness ==
    /\ pc = "read_input"
    /\ tries = 2
    /\ Filled = {1, 2}
    /\ guess \notin Range(WORDLIST)
    /\ Len(guess) = WORD_LENGTH

----------------------------------------------------------------------------
(* Further claims about color_guess, checked under SpecEval *)

\* C11: for every guess and secret of WORD_LENGTH letters, position i is
\* Correct if and only if the guess and the secret hold the same letter at
\* i: the test of the remaining frequency in the first loop never keeps an
\* exact match from being marked, and no other position is Correct.
C11_CorrectIffSameLetterAtPosition ==
    \A k \in Filled :
        LET g == board[k].plain
        IN  (Len(wordle) = WORD_LENGTH /\ Len(g) = WORD_LENGTH) =>
            \A i \in 1..WORD_LENGTH :
                (Class(board[k], i) = "Correct") <=> (g[i] = wordle[i])

\* C11 witness: a letter matched exactly at two positions, both Correct,
\* and a letter of the secret at a position where it is not Correct.
C11_Witness ==
    /\ pc = "colored"
    /\ \E i, j, m \in 1..WORD_LENGTH :
        /\ i < j
        /\ guess[i] = guess[j]
        /\ guess[i] = wordle[i] /\ guess[j] = wordle[j]
        /\ Class(board[1], i) = "Correct" /\ Class(board[1], j) = "Correct"
        /\ guess[m] # wordle[m]
        /\ guess[m] \in Range(wordle)
        /\ Class(board[1], m) # "Correct"

----------------------------------------------------------------------------
(* Further claims about the process and the round, checked under Spec *)

\* C12: the exit status is 0 whenever the round completes with Won or Lost,
\* and non-zero when the wordlist file is missing or holds no word (the
\* process then ends before a secret is picked; it never goes on with an
\* empty WORDLIST) and when the player interrupts a round in progress.
\* exit_status is -1 exactly while the process runs.
C12_ExitStatus ==
    /\ (pc = "exited") <=> (exit_status # -1)
    /\ (player_is_win \in {"True", "False"}) => (pc = "exited" /\ exit_status = 0)
    /\ (pc = "exited" /\ Len(WORDLIST) = 0) => exit_status > 0
    /\ (pc \notin {"load_wordlist", "exited"}) => Len(WORDLIST) > 0
    /\ (exception = "KeyboardInterrupt") => (pc = "exited" /\ exit_status > 0)

\* C12 witness: the player interrupted the third round; the process has
\* ended with status 1 and the round is neither won nor lost.
C12_Witness ==
    /\ pc = "exited"
    /\ exception = "KeyboardInterrupt"
    /\ tries = 2
    /\ player_is_win = "unset"
    /\ exit_status = 1

----------------------------------------------------------------------------
(* Order of the Present marks, checked under SpecEval *)

\* C13: within one evaluation the Present marks of a letter go to its
\* non-Correct occurrences in increasing index order: no occurrence of a
\* letter classified Absent has a lower index than an occurrence of the same
\* letter classified Present; with secret ELBOW and guess SLEEP the E at
\* index 2 is Present and the E at index 3 is Absent.
C13_PresentBeforeAbsent ==
    \A k \in Filled :
        LET g == board[k].plain
        IN  /\ \A i, j \in 1..Len(g) :
                (i < j /\ g[i] = g[j]) =>
                    ~(Class(board[k], i) = "Absent" /\ Class(board[k], j) = "Present")
            /\ (wordle = ELBOW /\ g = SLEEP) =>
                (Class(board[k], 3) = "Present" /\ Class(board[k], 4) = "Absent")

\* C13 witness: secret ELBOW, guess SLEEP: the first E Present, the second
\* E Absent.
C13_Witness ==
    /\ pc = "colored"
    /\ wordle = ELBOW
    /\ guess = SLEEP
    /\ Class(board[1], 3) = "Present"
    /\ Class(board[1], 4) = "Absent"

----------------------------------------------------------------------------
(* The board, checked under Spec *)

\* The number of guesses game() has recorded.
Recorded == IF player_is_win = "True" THEN tries + 1 ELSE tries

\* C14: the attempt history is append-only and ordered.  After k validated
\* guesses, slots 0..k-1 of the board hold them, each with the colouring
\* color_guess gives that guess against the secret, and the slots from k on
\* hold the placeholder; a step that records a guess writes the line just
\* accepted to the first free slot and leaves every earlier slot as it was.
C14_BoardAppendOnly ==
    /\ [](board # <<>> =>
            /\ Recorded <= TRIES_LIMIT
            /\ Filled = 1..Recorded
            /\ \A k \in Filled :
                board[k] = color_guess(board[k].plain, wordle,
                                       LETTER_STATUS_init).pretty_guess)
    /\ [][/\ \A k \in Filled : board'[k] = board[k]
          /\ (board # <<>> /\ board' # board) =>
                /\ Filled' = Filled \cup {Cardinality(Filled) + 1}
                /\ board'[Cardinality(Filled) + 1].plain = guess']_vars

\* C14 witness: three different guesses recorded in slots 1 to 3 (the last
\* one the line just accepted), the other slots still the placeholder.
C14_Witness ==
    /\ pc = "read_input"
    /\ tries = 3
    /\ Filled = {1, 2, 3}
    /\ board[3].plain = guess
    /\ board[1].plain # board[2].plain
    /\ board[2].plain # board[3].plain
    /\ \A k \in 4..TRIES_LIMIT : board[k] = empty_board[k]

----------------------------------------------------------------------------
(* Termination of the round *)

\* The process with a player who answers every prompt: no interrupt, and
\* the steps of the single thread are taken when they can be; in
\* particular a valid line is eventually typed at every prompt, whatever
\* rejected lines come first.
NextLive ==
    \/ load_wordlist
    \/ secret_word
    \/ game_start
    \/ read_input_reject
    \/ game_round_step

\* game_round_step can be taken: the prompt is open and a line that passes
\* the test of read_input exists.
PromptAnswerable ==
    /\ pc = "read_input"
    /\ \E line \in Inputs : is_valid(upper(line), WORDLIST)

\* The last conjunct is weak fairness of game_round_step with its enabling
\* condition written out.
SpecLive ==
    /\ Init
    /\ [][NextLive]_vars
    /\ WF_vars(load_wordlist)
    /\ WF_vars(secret_word)
    /\ WF_vars(game_start)
    /\ ([]<>(~PromptAnswerable) \/ []<><<game_round_step>>_vars)

RoundOver == player_is_win \in {"True", "False"}

\* C15: from the first prompt (tries = 0), given a valid guess at every
\* prompt sooner or later, the round eventually is Won or Lost, with at most
\* TRIES_LIMIT guesses recorded; once it is Won or Lost no line is read any
\* more and the board, LETTER_STATUS, tries and the outcome stay as they are.
C15_RoundTerminates ==
    /\ (pc = "read_input" /\ tries = 0) ~> RoundOver
    /\ [](RoundOver => (pc = "exited" /\ Recorded <= TRIES_LIMIT))
    /\ [][RoundOver => UNCHANGED <<guess, board, LETTER_STATUS, tries,
                                   player_is_win>>]_vars

----------------------------------------------------------------------------
(* What the legend says about the secret, checked under Spec *)

\* The letters of the guesses recorded so far.
Guessed == UNION {Range(board[k].plain) : k \in Filled}

\* C16: after any sequence of evaluated guesses against a secret of
\* WORD_LENGTH letters, the legend shows a letter Absent if and only if the
\* letter has occurred in a guess and does not occur in the secret; every
\* guessed letter of the secret shows Present or Correct, also when some of
\* its occurrences were classified Absent.
C16_AbsentIffGuessedAndNotInSecret ==
    (Len(wordle) = WORD_LENGTH /\ exception # "IndexError") =>
        \A X \in Range(UPPER) :
            /\ (EffRank(X) = 1) <=> (X \in Guessed /\ X \notin Range(wordle))
            /\ (X \in Guessed /\ X \in Range(wordle)) => EffRank(X) >= 2

\* C16 witness: a letter of the secret whose best classification is Present
\* and which was also classified Absent shows Present, next to a guessed
\* letter outside the secret that shows Absent.
C16_Witness ==
    /\ Len(wordle) = WORD_LENGTH
    /\ \E X, Y \in Guessed :
        /\ X \in Range(wordle)
        /\ \E k \in Filled : 1 \in RanksIn(k, X)
        /\ BestRank(X) = 2
        /\ EffRank(X) = 2
        /\ Y \notin Range(wordle)
        /\ EffRank(Y) = 1

====
